---- MODULE Spec2Model ----
(***************************************************************************)
(* Model of the Hub FVM API client                                         *)
(* (crates/fluvio-hub-util/src/fvm/api/client.rs).                         *)
(*                                                                         *)
(* Strings are sequences of tokens.  "/" and "." are tokens of their own,  *)
(* so that the path handling of the URL parser (splitting on "/",          *)
(* removal of "." and ".." segments, the root path of a URL without path)  *)
(* is computed and not assumed.  The strings of the model are lower-case   *)
(* and hold no character the parser would percent-encode.                  *)
(***************************************************************************)
EXTENDS Integers, Sequences, FiniteSets, TLC

VARIABLES base, client, calls, wire, finished

vars == <<base, client, calls, wire, finished>>

\* Number of fetch_package_set calls issued on the one shared Client.
MaxCalls == 2

CallIds == 1..MaxCalls

(***************************************************************************)
(* url::Url : parsing and serialisation                                    *)
(***************************************************************************)

NoUrl == [scheme |-> "", host |-> "", path |-> <<>>]

Schemes == {"https:"}

Hosts == {"github.com", "example.org"}

RECURSIVE SplitPath(_, _, _)
\* The segments of a path "/s1/s2/...": t is the text after the first "/".
SplitPath(t, cur, acc) ==
    IF t = <<>> THEN Append(acc, cur)
    ELSE IF Head(t) = "/" THEN SplitPath(Tail(t), <<>>, Append(acc, cur))
    ELSE SplitPath(Tail(t), Append(cur, Head(t)), acc)

IsSingleDot(seg) == seg = <<".">>

IsDoubleDot(seg) == seg = <<".", ".">>

Shorten(path) == IF path = <<>> THEN path ELSE SubSeq(path, 1, Len(path) - 1)

RECURSIVE RemoveDots(_, _, _)
\* Dot segments are resolved while the path is parsed; empty segments stay.
RemoveDots(segs, i, out) ==
    IF i > Len(segs) THEN out
    ELSE LET seg == segs[i]
             last == (i = Len(segs))
         IN  IF IsDoubleDot(seg)
             THEN RemoveDots(segs, i + 1,
                             IF last THEN Append(Shorten(out), <<>>) ELSE Shorten(out))
             ELSE IF IsSingleDot(seg)
             THEN RemoveDots(segs, i + 1, IF last THEN Append(out, <<>>) ELSE out)
             ELSE RemoveDots(segs, i + 1, Append(out, seg))

\* The path of a special-scheme URL is never empty: no path parses as "/".
ParsePath(rest) ==
    IF rest = <<>> THEN << <<>> >>
    ELSE RemoveDots(SplitPath(Tail(rest), <<>>, <<>>), 1, <<>>)

\* Url::parse / str::parse::<Url>
UrlParse(s) ==
    IF Len(s) >= 4 /\ s[1] \in Schemes /\ s[2] = "/" /\ s[3] = "/"
       /\ s[4] \in Hosts /\ (Len(s) = 4 \/ s[5] = "/")
    THEN [ok |-> TRUE,
          url |-> [scheme |-> s[1], host |-> s[4],
                   path |-> ParsePath(SubSeq(s, 5, Len(s)))],
          err |-> "none"]
    ELSE [ok |-> FALSE, url |-> NoUrl,
          err |-> IF Len(s) >= 1 /\ s[1] \in Schemes
                  THEN "EmptyHost" ELSE "RelativeUrlWithoutBase"]

RECURSIVE PathString(_)
PathString(path) ==
    IF path = <<>> THEN <<>> ELSE <<"/">> \o Head(path) \o PathString(Tail(path))

\* Display for Url / Url::as_str
UrlDisplay(url) == <<url.scheme, "/", "/", url.host>> \o PathString(url.path)

(***************************************************************************)
(* Channel                                                                 *)
(***************************************************************************)

NoVersion == [major |-> 0, minor |-> 0, patch |-> 0]

Versions == {[major |-> 0, minor |-> 10, patch |-> 14]}

\* Display of semver::Version (no pre-release, no build metadata)
VersionDisplay(v) ==
    <<ToString(v.major), ".", ToString(v.minor), ".", ToString(v.patch)>>

OtherNames == {<<"dev">>, <<".", ".">>}

Stable == [kind |-> "Stable", version |-> NoVersion, s |-> <<>>]

Latest == [kind |-> "Latest", version |-> NoVersion, s |-> <<>>]

Tag(v) == [kind |-> "Tag", version |-> v, s |-> <<>>]

Other(s) == [kind |-> "Other", version |-> NoVersion, s |-> s]

Channels == {Stable, Latest} \cup {Tag(v) : v \in Versions} \cup {Other(s) : s \in OtherNames}

(***************************************************************************)
(* Client                                                                  *)
(***************************************************************************)

BaseInputs ==
    { <<"https:", "/", "/", "github.com", "/", "fluvio-community", "/", "fluvio">>,
      <<"https:", "/", "/", "example.org">>,
      <<"https:", "/", "/", "example.org", "/", "hub", "/">>,
      <<"example.org">>,
      <<>> }

\* Client::new
New(url) ==
    LET parsed == UrlParse(url)
    IN  [ok |-> parsed.ok, api_url |-> parsed.url, err |-> parsed.err]

\* match channel { ... }
VersionSegment(channel) ==
    CASE channel.kind = "Stable" -> <<"stable">>
      [] channel.kind = "Latest" -> <<"latest">>
      [] channel.kind = "Tag" -> <<"v">> \o VersionDisplay(channel.version)
      [] channel.kind = "Other" -> channel.s

\* format!("{}/releases/download/{}/manifest.json", self.api_url, version)
FormatManifestUrl(api_url, version) ==
    UrlDisplay(api_url) \o <<"/", "releases", "/", "download", "/">> \o version
        \o <<"/", "manifest.json">>

\* Client::make_fetch_package_set_url
make_fetch_package_set_url(api_url, channel) ==
    UrlParse(FormatManifestUrl(api_url, VersionSegment(channel)))

(***************************************************************************)
(* The manifest, the error envelope and the transport                      *)
(***************************************************************************)

Archs == {"x86_64", "aarch64"}

\* PackageSetRecord, as stored in the manifest under an architecture key
RecordFor(arch) == [id |-> <<"id-", arch>>, pkgset |-> "0.10.14", arch |-> arch]

NoPackageSet == [pkgset |-> "", arch |-> ""]

\* impl From<PackageSetRecord> for PackageSet
PackageSetFrom(record) == [pkgset |-> record.pkgset, arch |-> record.arch]

NoManifest == [a \in {} |-> RecordFor(a)]

ManifestOf(keys) == [a \in keys |-> RecordFor(a)]

ManifestBody(keys) ==
    [kind |-> "manifest", map |-> ManifestOf(keys), status |-> 0, message |-> <<>>]

EnvelopeBody(status, message) ==
    [kind |-> "envelope", map |-> NoManifest, status |-> status, message |-> message]

GarbageBody == [kind |-> "garbage", map |-> NoManifest, status |-> 0, message |-> <<>>]

\* What the server answers: a status and a body
Responses ==
    { <<200, ManifestBody({"x86_64", "aarch64"})>>,
      <<200, ManifestBody({"x86_64"})>>,
      <<200, GarbageBody>>,
      <<404, EnvelopeBody(500, <<"timed out">>)>>,
      <<404, GarbageBody>>,
      <<503, ManifestBody({"x86_64", "aarch64"})>> }

\* The text of the transport's error (err.to_string())
TransportErrors == { <<"timed out">> }

NoBody == [kind |-> "none", map |-> NoManifest, status |-> 0, message |-> <<>>]

NoReply == [kind |-> "none", text |-> <<>>, status |-> 0, body |-> NoBody]

TransportFailure(text) == [kind |-> "err", text |-> text, status |-> 0, body |-> NoBody]

Response(status, body) == [kind |-> "response", text |-> <<>>, status |-> status, body |-> body]

\* res.json::<HashMap<String, PackageSetRecord>>()
JsonManifest(body) == [ok |-> body.kind = "manifest", map |-> body.map]

\* res.json::<ApiError>()
JsonApiError(body) ==
    [ok |-> body.kind = "envelope", status |-> body.status, message |-> body.message]

\* StatusCode::is_success
is_success(status) == 200 <= status /\ status < 300

(***************************************************************************)
(* Results (anyhow::Result<PackageSet>)                                    *)
(***************************************************************************)

Ok(value) == [ok |-> TRUE, value |-> value, err |-> [kind |-> "none", msg |-> <<>>]]

\* Error::msg(..) / anyhow!(..): an error that is only its text
ErrMsg(msg) == [ok |-> FALSE, value |-> NoPackageSet, err |-> [kind |-> "msg", msg |-> msg]]

\* `?` on a url::ParseError
ErrParse(e) == [ok |-> FALSE, value |-> NoPackageSet, err |-> [kind |-> "ParseError", msg |-> <<e>>]]

NoResult == [ok |-> FALSE, value |-> NoPackageSet, err |-> [kind |-> "pending", msg |-> <<>>]]

MalformedManifest == ErrMsg(<<"Failed to parse manifest file">>)

ArchitectureNotFound(arch) == ErrMsg(<<"Architecture '", arch, "' not found in manifest">>)

\* The status is written by its Display; the model keeps its number.
ServerError(status) == ErrMsg(<<"Server responded with status code ", ToString(status)>>)

Remote(message) == ErrMsg(message)

Transport(text) == ErrMsg(text)

\* Mutant: the record is looked up under a fixed architecture.
HandleResponse_FixedArch(status, body, arch) ==
    IF is_success(status)
    THEN LET manifest == JsonManifest(body)
         IN  IF ~manifest.ok THEN MalformedManifest
             ELSE IF "x86_64" \notin DOMAIN manifest.map THEN ArchitectureNotFound(arch)
             ELSE Ok(PackageSetFrom(manifest.map["x86_64"]))
    ELSE LET error == JsonApiError(body)
         IN  IF ~error.ok THEN ServerError(status)
             ELSE Remote(error.message)

\* Mutant: a missing architecture is reported as a parse failure.
HandleResponse_OneParseError(status, body, arch) ==
    IF is_success(status)
    THEN LET manifest == JsonManifest(body)
         IN  IF ~manifest.ok \/ arch \notin DOMAIN manifest.map THEN MalformedManifest
             ELSE Ok(PackageSetFrom(manifest.map[arch]))
    ELSE LET error == JsonApiError(body)
         IN  IF ~error.ok THEN ServerError(status)
             ELSE Remote(error.message)

\* Mutant: the envelope's status is reported in place of its message.
HandleResponse_EnvelopeStatus(status, body, arch) ==
    IF is_success(status)
    THEN LET manifest == JsonManifest(body)
         IN  IF ~manifest.ok THEN MalformedManifest
             ELSE IF arch \notin DOMAIN manifest.map THEN ArchitectureNotFound(arch)
             ELSE Ok(PackageSetFrom(manifest.map[arch]))
    ELSE LET error == JsonApiError(body)
         IN  IF ~error.ok THEN ServerError(status)
             ELSE ServerError(error.status)

\* Mutant: the body is tried as a manifest before the status is looked at.
HandleResponse_ManifestFirst(status, body, arch) ==
    LET manifest == JsonManifest(body)
    IN  IF manifest.ok
        THEN IF arch \notin DOMAIN manifest.map THEN ArchitectureNotFound(arch)
             ELSE Ok(PackageSetFrom(manifest.map[arch]))
        ELSE IF is_success(status) THEN MalformedManifest
        ELSE LET error == JsonApiError(body)
             IN  IF ~error.ok THEN ServerError(status)
                 ELSE Remote(error.message)

\* fetch_package_set, from the response on
HandleResponse(status, body, arch) ==
    IF is_success(status)
    THEN LET manifest == JsonManifest(body)
         IN  IF ~manifest.ok THEN MalformedManifest
             ELSE IF arch \notin DOMAIN manifest.map THEN ArchitectureNotFound(arch)
             ELSE Ok(PackageSetFrom(manifest.map[arch]))
    ELSE LET error == JsonApiError(body)
         IN  IF ~error.ok THEN ServerError(status)
             ELSE Remote(error.message)

\* fetch_package_set, from the outcome of the awaited get on
HandleReply(reply, arch) ==
    IF reply.kind = "err" THEN Transport(reply.text)
    ELSE HandleResponse(reply.status, reply.body, arch)

(***************************************************************************)
(* State machine: one Client shared by MaxCalls fetch_package_set calls.   *)
(* A call is a future: it runs to the await of the GET, is suspended, and  *)
(* runs to its return when the GET completes.  What a returned call was    *)
(* given and what it gave back is kept in `finished`.                      *)
(***************************************************************************)

NoBuild == [ok |-> FALSE, url |-> NoUrl, err |-> "none"]

IdleCall ==
    [pc |-> "idle", channel |-> Stable, arch |-> "", built |-> NoBuild,
     gets |-> 0, requested |-> NoUrl]

\* The frame of a returned call is dropped.
ReturnedCall == [IdleCall EXCEPT !.pc = "returned"]

Init ==
    /\ base \in BaseInputs
    /\ client = New(base)
    /\ calls = [i \in CallIds |-> IdleCall]
    /\ wire = {}
    /\ finished = {}

\* What the caller of a returned call observes of it
Returned(call, answered, reply, result) ==
    [channel |-> call.channel, arch |-> call.arch, built |-> call.built,
     gets |-> call.gets, requested |-> call.requested, answered |-> answered,
     reply |-> reply, result |-> result]

\* Mutant: the built URL is kept as the client's api_url.
Call_KeepsBuiltUrl(i, channel, arch) ==
    /\ client.ok
    /\ calls[i].pc = "idle"
    /\ \A j \in CallIds : j < i => calls[j].pc # "idle"
    /\ LET built == make_fetch_package_set_url(client.api_url, channel)
           started == [calls[i] EXCEPT !.channel = channel, !.arch = arch, !.built = built]
       IN  /\ built.ok
           /\ calls' = [calls EXCEPT ![i] =
                  [started EXCEPT !.pc = "awaiting", !.gets = @ + 1,
                                  !.requested = built.url]]
           /\ wire' = wire \cup {[id |-> i, url |-> built.url]}
           /\ client' = [client EXCEPT !.api_url = built.url]
    /\ UNCHANGED <<base, finished>>

\* fetch_package_set up to the await: build the URL, issue the GET.
\* Calls are numbered in the order they are issued.
Call(i, channel, arch) ==
    /\ client.ok
    /\ calls[i].pc = "idle"
    /\ \A j \in CallIds : j < i => calls[j].pc # "idle"
    /\ LET built == make_fetch_package_set_url(client.api_url, channel)
           started == [calls[i] EXCEPT !.channel = channel, !.arch = arch, !.built = built]
       IN  IF built.ok
           THEN /\ calls' = [calls EXCEPT ![i] =
                       [started EXCEPT !.pc = "awaiting", !.gets = @ + 1,
                                       !.requested = built.url]]
                /\ wire' = wire \cup {[id |-> i, url |-> built.url]}
                /\ finished' = finished
           ELSE /\ calls' = [calls EXCEPT ![i] = ReturnedCall]
                /\ wire' = wire
                /\ finished' = finished \cup {Returned(started, NoUrl, NoReply, ErrParse(built.err))}
    /\ UNCHANGED <<base, client>>

\* The request a call waits on
RequestOf(i) == {m \in wire : m.id = i}

\* Mutant: a failed GET is sent once more before the call gives up.
Complete_Retry(i, reply) ==
    /\ calls[i].pc = "awaiting"
    /\ \E m \in RequestOf(i) :
          IF reply.kind = "err" /\ calls[i].gets < 2
          THEN /\ calls' = [calls EXCEPT ![i] = [@ EXCEPT !.gets = @ + 1]]
               /\ UNCHANGED <<wire, finished>>
          ELSE /\ wire' = wire \ {m}
               /\ calls' = [calls EXCEPT ![i] = ReturnedCall]
               /\ finished' = finished \cup
                      {Returned(calls[i], m.url, reply, HandleReply(reply, calls[i].arch))}
    /\ UNCHANGED <<base, client>>

\* Mutant: the arch of the call is read from a slot the calls share.
Complete_SharedArch(i, reply) ==
    /\ calls[i].pc = "awaiting"
    /\ \E m \in RequestOf(i), j \in CallIds :
          /\ calls[j].pc = "awaiting"
          /\ wire' = wire \ {m}
          /\ calls' = [calls EXCEPT ![i] = ReturnedCall]
          /\ finished' = finished \cup
                 {Returned(calls[i], m.url, reply, HandleReply(reply, calls[j].arch))}
    /\ UNCHANGED <<base, client>>

\* The awaited get completes with `reply`; the call runs to its return.
Complete(i, reply) ==
    /\ calls[i].pc = "awaiting"
    /\ \E m \in RequestOf(i) :
          /\ wire' = wire \ {m}
          /\ calls' = [calls EXCEPT ![i] = ReturnedCall]
          /\ finished' = finished \cup
                 {Returned(calls[i], m.url, reply, HandleReply(reply, calls[i].arch))}
    /\ UNCHANGED <<base, client>>

\* htclient::get fails
TransportFail(i) == \E text \in TransportErrors : Complete(i, TransportFailure(text))

\* htclient::get returns a response
Respond(i) == \E r \in Responses : Complete(i, Response(r[1], r[2]))

\* The (channel, arch) pairs the calls are made with: every variant of Channel,
\* both architectures, and one channel with each of the two.
CallArgs ==
    { <<Stable, "x86_64">>, <<Stable, "aarch64">>, <<Latest, "x86_64">> }
        \cup {<<Tag(v), "aarch64">> : v \in Versions}
        \cup {<<Other(<<"dev">>), "x86_64">>, <<Other(<<".", ".">>), "aarch64">>}

Next ==
    \/ \E i \in CallIds, args \in CallArgs : Call(i, args[1], args[2])
    \/ \E i \in CallIds : TransportFail(i)
    \/ \E i \in CallIds : Respond(i)

Spec == Init /\ [][Next]_vars

TypeOK ==
    /\ base \in BaseInputs
    /\ \A i \in CallIds : calls[i].pc \in {"idle", "awaiting", "returned"}
    /\ \A m \in wire : m.id \in CallIds

(***************************************************************************)
(* Properties                                                              *)
(***************************************************************************)

\* The calls suspended at the await
Awaiting == {calls[i] : i \in {j \in CallIds : calls[j].pc = "awaiting"}}

\* Every manifest URL built so far, with the channel it was built for
BuiltUrls ==
    {[channel |-> f.channel, built |-> f.built] : f \in finished}
        \cup {[channel |-> c.channel, built |-> c.built] : c \in Awaiting}

\* "/releases/download/{segment}/manifest.json"
ManifestPath(segment) ==
    <<"/", "releases", "/", "download", "/">> \o segment \o <<"/", "manifest.json">>

\* C1: for every channel the manifest URL is the text of api_url followed by
\* /releases/download/{segment}/manifest.json, the segment being "stable",
\* "latest", "v" + version, or the string of Other verbatim.
C1_UrlIsLiteralPath ==
    \A b \in BuiltUrls :
        /\ b.built.ok
        /\ UrlDisplay(b.built.url)
               = UrlDisplay(client.api_url) \o ManifestPath(VersionSegment(b.channel))

\* C2: the base URL is stored verbatim: for Stable, Latest and Tag the manifest
\* URL is the string given to Client::new followed by
\* /releases/download/{segment}/manifest.json.
C2_BaseStoredVerbatim ==
    \A b \in BuiltUrls :
        b.channel.kind # "Other" =>
            UrlDisplay(b.built.url) = base \o ManifestPath(VersionSegment(b.channel))

Succeeded(f) == f.reply.kind = "response" /\ is_success(f.reply.status)

Failed(f) == f.reply.kind = "response" /\ ~is_success(f.reply.status)

\* C3: on a success status with a manifest that holds the key arch, the call
\* returns Ok with the PackageSet of the record under that key, and of no other.
C3_ReturnsRecordOfArch ==
    \A f \in finished :
        (Succeeded(f) /\ JsonManifest(f.reply.body).ok
            /\ f.arch \in DOMAIN JsonManifest(f.reply.body).map) =>
            LET map == JsonManifest(f.reply.body).map
            IN  /\ f.result = Ok(PackageSetFrom(map[f.arch]))
                /\ \A a \in DOMAIN map \ {f.arch} :
                       f.result.value # PackageSetFrom(map[a])

C3_Witness ==
    \E f \in finished :
        /\ Succeeded(f) /\ JsonManifest(f.reply.body).ok
        /\ f.arch = "aarch64"
        /\ DOMAIN JsonManifest(f.reply.body).map = {"x86_64", "aarch64"}
        /\ f.result.ok

\* C4: on a success status, a manifest without the key arch fails with
\* ArchitectureNotFound of that arch, a body that is no manifest fails with
\* MalformedManifest, and neither error is reported for the other condition.
C4_MissingArchVersusMalformed ==
    \A f \in finished :
        Succeeded(f) =>
            LET manifest == JsonManifest(f.reply.body)
            IN  /\ (manifest.ok /\ f.arch \notin DOMAIN manifest.map) =>
                       (f.result = ArchitectureNotFound(f.arch)
                            /\ f.result # MalformedManifest)
                /\ ~manifest.ok =>
                       (f.result = MalformedManifest
                            /\ \A a \in Archs : f.result # ArchitectureNotFound(a))

C4_Witness ==
    /\ \E f \in finished :
          Succeeded(f) /\ JsonManifest(f.reply.body).ok
              /\ f.arch \notin DOMAIN JsonManifest(f.reply.body).map
    /\ \E f \in finished : Succeeded(f) /\ ~JsonManifest(f.reply.body).ok

\* C5: a non-2xx response whose body is an error envelope fails with the
\* envelope's message verbatim, whatever the envelope's status field says.
C5_RemoteCarriesMessage ==
    \A f \in finished :
        (Failed(f) /\ JsonApiError(f.reply.body).ok) =>
            /\ ~f.result.ok
            /\ f.result.err.msg = JsonApiError(f.reply.body).message

C5_Witness ==
    \E f \in finished :
        /\ Failed(f) /\ JsonApiError(f.reply.body).ok
        /\ JsonApiError(f.reply.body).status # f.reply.status
        /\ f.result.err.msg = <<"timed out">>

\* C6: a non-2xx response whose body is no error envelope fails with the
\* status of the response itself, and nothing of the body.
C6_ServerErrorCarriesStatus ==
    \A f \in finished :
        (Failed(f) /\ ~JsonApiError(f.reply.body).ok) =>
            /\ ~f.result.ok
            /\ f.result.err.msg
                   = <<"Server responded with status code ", ToString(f.reply.status)>>

C6_Witness ==
    /\ \E f \in finished :
          /\ Failed(f) /\ f.reply.status = 503 /\ ~JsonApiError(f.reply.body).ok
          /\ JsonManifest(f.reply.body).ok
          /\ f.arch \in DOMAIN JsonManifest(f.reply.body).map
          /\ ~f.result.ok
    /\ \E f \in finished :
          Failed(f) /\ f.reply.status = 404 /\ f.reply.body = GarbageBody

\* C7: a transport failure fails with the transport's error, an outcome that no
\* call answered with a non-2xx response has.
C7_TransportDistinctFromStatus ==
    \A f \in finished :
        f.reply.kind = "err" =>
            /\ f.result = Transport(f.reply.text)
            /\ \A g \in finished : Failed(g) => g.result # f.result

\* C8: a call whose URL resolves issues exactly one GET, to the resolved URL,
\* whatever its outcome; a call whose URL does not resolve issues none.
C8_ExactlyOneGet ==
    /\ \A f \in finished :
          IF f.built.ok
          THEN f.gets = 1 /\ f.requested = f.built.url
          ELSE f.gets = 0 /\ f.result = ErrParse(f.built.err)
    /\ \A i \in CallIds :
          /\ calls[i].pc = "awaiting" =>
                 /\ calls[i].gets = 1
                 /\ RequestOf(i) = {[id |-> i, url |-> calls[i].built.url]}
          /\ calls[i].pc # "awaiting" => RequestOf(i) = {}

C8_Witness ==
    /\ \E f \in finished : f.reply.kind = "err" /\ f.gets = 1
    /\ \E f \in finished : f.reply.kind = "response" /\ f.gets = 1
    /\ wire = {}

\* Calls with the same channel and arch that got the same answer returned the same.
Idempotent ==
    \A f, g \in finished :
        (f.channel = g.channel /\ f.arch = g.arch /\ f.reply = g.reply) =>
            (f.result = g.result /\ f.built = g.built)

\* C9: no call changes the client: api_url keeps its value of construction, no
\* returned call leaves state behind, and a repeated call gives the same result.
C9_ClientUnchanged ==
    [][/\ client' = client
       /\ client' = New(base')
       /\ Idempotent'
       /\ \A i \in CallIds : calls'[i].pc = "returned" => calls'[i] = ReturnedCall]_vars

\* Every call has returned and all of them were the same call, repeated.
C9_Witness ==
    /\ \A i \in CallIds : calls[i].pc = "returned"
    /\ Cardinality(finished) = 1
    /\ \E f \in finished : f.result.ok
    /\ client = New(base)

\* The outcome of a call that runs alone on a client
FetchAlone(api_url, channel, arch, reply) ==
    LET built == make_fetch_package_set_url(api_url, channel)
    IN  IF ~built.ok THEN ErrParse(built.err) ELSE HandleReply(reply, arch)

\* C10: under every interleaving a call's outcome is the one it would have had
\* alone, from its own channel, arch and the answer to its own request.
C10_OutcomeAsIfAlone ==
    \A f \in finished :
        /\ f.built = make_fetch_package_set_url(client.api_url, f.channel)
        /\ f.built.ok => f.answered = f.requested
        /\ f.result = FetchAlone(client.api_url, f.channel, f.arch, f.reply)

C10_Witness ==
    /\ calls[1].pc = "awaiting" /\ calls[2].pc = "returned"
    /\ calls[1].arch = "x86_64"
    /\ \E f \in finished : f.arch = "aarch64" /\ f.result.ok

====
